---- MODULE Spec2Model ----
(***************************************************************************)
(* Library manager of project4.py: the LibraryManager class (catalog of    *)
(* Book objects, list of loan records, JSON persistence, report) driven by *)
(* calls of its methods.  The catalog is a Python dict, modelled as the    *)
(* sequence of its values in insertion order; the loan list is a Python    *)
(* list of dicts; the data file is what json.load would read from it.      *)
(***************************************************************************)
EXTENDS Integers, Sequences, FiniteSets, TLC

\* ------------------------------------------------------------------------
\* Bounds of the model
\* ------------------------------------------------------------------------

\* longest loan list the model follows (the code allows 3 per user)
MaxLoans == 4

\* how many days the clock may advance past the first day
MaxDays == 8

\* how many writes of the data file may hit an I/O error
MaxIOErrors == 1

\* how many student records the list may hold
MaxStudents == 3

\* how many wrong guesses a game may take
MaxTurns == 3

\* ------------------------------------------------------------------------
\* Program constants
\* ------------------------------------------------------------------------

\* borrow_book: "Limit to 3 borrowed books at a time"
BORROW_LIMIT == 3

\* borrow_book: timedelta(days=7)
LOAN_DAYS == 7

\* proleptic Gregorian ordinal of the first day of the run (2024-02-22)
Day0 == 738938

\* ------------------------------------------------------------------------
\* Input alphabets
\* ------------------------------------------------------------------------

NoneId == "None"
Users == {"u1", "u2"}
UserInputs == Users \cup {NoneId}

Titles == {"Dune"}
Authors == {"Herbert"}
\* numbers typed at the copies prompt
CopiesInput == {0 - 1, 0, 2}

\* the values uuid.uuid4() returns, in the order it returns them
UUIDS == <<"uuid-a">>

\* ids typed by a caller: the seeded ids and the generated one (an id is
\* unknown to the catalog before its book is added and after it is deleted)
BookIdInputs == {"1", "2", "3"} \cup {UUIDS[i] : i \in DOMAIN UUIDS}

\* ids typed at the delete prompt
DeleteInputs == {"1", "uuid-a"}

\* days that pass between two calls
DayJumps == {1, 7}

VARIABLES
    books,              \* self.books: Book objects in dict insertion order
    borrowed_records,   \* self.borrowed_records
    file,               \* content of library_data.json
    today,              \* datetime.date.today(), as an ordinal
    uuid_count,         \* uuid4 values drawn so far
    io_errors,          \* writes that hit an I/O error so far
    crashed,            \* an exception escaped to the top level
    out,                \* return value and message of the last call
    report,             \* what the last report or listing printed, <<>> if none
    USERS,              \* the global USERS list
    CURRENT_USER,       \* the global CURRENT_USER
    pc,                 \* the prompt the program is waiting at
    locals,             \* title and author typed before the copies prompt
    process,            \* how many times the library program has been started
    STD_LIST,           \* student manager: the global STD_LIST
    num,                \* guessing game: the number drawn
    turns,              \* guessing game: the turns counter
    guesses             \* guessing game: the guesses typed so far

\* the session: users, the logged-in user and the position in the menus
sess == <<USERS, CURRENT_USER, pc, locals>>

\* what no call and no menu of a running library program touches: the count
\* of its starts, and the state of the two other programs
elsewhere == <<process, STD_LIST, num, turns, guesses>>

vars == <<books, borrowed_records, file, today, uuid_count, io_errors,
          crashed, out, report, USERS, CURRENT_USER, pc, locals,
          process, STD_LIST, num, turns, guesses>>

\* ------------------------------------------------------------------------
\* datetime.date: ordinal <-> (year, month, day), as CPython computes them
\* ------------------------------------------------------------------------

DAYS_IN_MONTH == <<31, 28, 31, 30, 31, 30, 31, 31, 30, 31, 30, 31>>
DAYS_BEFORE_MONTH == <<0, 31, 59, 90, 120, 151, 181, 212, 243, 273, 304, 334>>

is_leap(year) == year % 4 = 0 /\ (year % 100 # 0 \/ year % 400 = 0)

days_before_year(year) ==
    LET y == year - 1
    IN  y * 365 + (y \div 4) - (y \div 100) + (y \div 400)

days_before_month(year, month) ==
    DAYS_BEFORE_MONTH[month] + (IF month > 2 /\ is_leap(year) THEN 1 ELSE 0)

ymd2ord(year, month, day) ==
    days_before_year(year) + days_before_month(year, month) + day

ord2ymd(ordinal) ==
    LET n0   == ordinal - 1
        n400 == n0 \div 146097
        r400 == n0 % 146097
        n100 == r400 \div 36524
        r100 == r400 % 36524
        n4   == r100 \div 1461
        r4   == r100 % 1461
        n1   == r4 \div 365
        n    == r4 % 365
        year == n400 * 400 + 1 + n100 * 100 + n4 * 4 + n1
        leapyear == n1 = 3 /\ (n4 # 24 \/ n100 = 3)
        month0 == (n + 50) \div 32
        preceding0 == DAYS_BEFORE_MONTH[month0]
                        + (IF month0 > 2 /\ leapyear THEN 1 ELSE 0)
        month == IF preceding0 > n THEN month0 - 1 ELSE month0
        preceding == IF preceding0 > n
                     THEN preceding0 - (DAYS_IN_MONTH[month]
                            + (IF month = 2 /\ leapyear THEN 1 ELSE 0))
                     ELSE preceding0
    IN  IF n1 = 4 \/ n100 = 4
        THEN <<year - 1, 12, 31>>
        ELSE <<year, month, n - preceding + 1>>

\* date.strftime("%Y-%m-%d"): the text "YYYY-MM-DD" as its three fields
strftime(ordinal) == ord2ymd(ordinal)

\* date.fromisoformat: the date a "YYYY-MM-DD" text names
fromisoformat(s) == ymd2ord(s[1], s[2], s[3])

\* ------------------------------------------------------------------------
\* Book and its dictionary form
\* ------------------------------------------------------------------------

\* Book.__init__ with an explicit book_id
Book(title, author, copies, book_id) ==
    [id |-> book_id, title |-> title, author |-> author, copies |-> copies]

to_dict(book) ==
    [id |-> book.id, title |-> book.title, author |-> book.author,
     copies |-> book.copies]

BookKeys == {"id", "title", "author", "copies"}

\* data['title'] ... raise KeyError when the key is missing
from_dict_raises(data) == ~(BookKeys \subseteq DOMAIN data)

\* a slip: title and author change places
from_dict_swapped(data) == Book(data.author, data.title, data.copies, data.id)

from_dict(data) == Book(data.title, data.author, data.copies, data.id)

\* the three sample books of load_data
initial_books ==
    << Book("The Great Gatsby", "F. Scott Fitzgerald", 3, "1"),
       Book("1984", "George Orwell", 5, "2"),
       Book("Moby Dick", "Herman Melville", 1, "3") >>

\* ------------------------------------------------------------------------
\* Helpers on the catalog (a dict keyed by id) and the loan list
\* ------------------------------------------------------------------------

RECURSIVE SumSeq(_)
SumSeq(s) == IF s = <<>> THEN 0 ELSE Head(s) + SumSeq(Tail(s))

\* book_id in self.books
has_book(bks, book_id) == \E i \in DOMAIN bks : bks[i].id = book_id

\* self.books[book_id]
book_at(bks, book_id) ==
    bks[CHOOSE i \in DOMAIN bks : bks[i].id = book_id]

\* self.books[book.id] = book: a new key goes last, a known key keeps its place
dict_set(bks, book) ==
    IF has_book(bks, book.id)
    THEN [i \in DOMAIN bks |-> IF bks[i].id = book.id THEN book ELSE bks[i]]
    ELSE Append(bks, book)

\* a slip: the filter is inverted, only the named book stays
dict_del_inverted(bks, book_id) == SelectSeq(bks, LAMBDA b : b.id = book_id)

\* del self.books[book_id]
dict_del(bks, book_id) == SelectSeq(bks, LAMBDA b : b.id # book_id)

\* a slip: drops every element equal to x
list_remove_all(recs, x) == SelectSeq(recs, LAMBDA r : r # x)

\* list.remove(x): drops the first element equal to x
list_remove(recs, x) ==
    LET i == CHOOSE k \in DOMAIN recs :
                 recs[k] = x /\ \A j \in 1 .. (k - 1) : recs[j] # x
    IN  SubSeq(recs, 1, i - 1) \o SubSeq(recs, i + 1, Len(recs))

\* a slip: counts the records of a user id instead of a book id
get_borrowed_count_by_user(recs, book_id) ==
    Cardinality({i \in DOMAIN recs : recs[i].user_id = book_id})

get_borrowed_count(recs, book_id) ==
    Cardinality({i \in DOMAIN recs : recs[i].book_id = book_id})

\* sum(1 for r in self.borrowed_records if r['user_id'] == user_id)
user_loan_count(recs, user_id) ==
    Cardinality({i \in DOMAIN recs : recs[i].user_id = user_id})

\* a slip: one copy too many (>= 0 for > 0 in the caller)
available_copies_plus_one(bks, recs, book_id) ==
    book_at(bks, book_id).copies - get_borrowed_count(recs, book_id) + 1

\* book.copies - self.get_borrowed_count(book.id)
available_copies(bks, recs, book_id) ==
    book_at(bks, book_id).copies - get_borrowed_count(recs, book_id)

\* ------------------------------------------------------------------------
\* The data file
\* ------------------------------------------------------------------------

\* os.path.exists is False
AbsentFile == [kind |-> "absent", data |-> <<>>]

\* not JSON: json.load raises JSONDecodeError (also a file cut short)
GarbageFile == [kind |-> "garbage", data |-> <<>>]

\* a regular file the process may write but not read (mode 0200):
\* open(..., 'r') raises IOError whatever the bytes are, open(..., 'w')
\* works; data is the content nobody can read
UnreadableFile == [kind |-> "unreadable", data |-> GarbageFile]

\* valid JSON whose top level is a list: []
JsonListFile == [kind |-> "json_list", data |-> <<>>]

\* valid JSON object without any key: {}
EmptyObjectFile == [kind |-> "object", data |-> <<>>]

\* valid JSON object, one book entry without its 'copies' key
MissingKeyFile ==
    [kind |-> "object",
     data |-> [books |-> << [key |-> "1",
                             value |-> [id |-> "1", title |-> "Dune",
                                        author |-> "Herbert"]] >>,
               borrowed_records |-> <<>>]]

\* the bytes at the path, readable or not
content(f) == IF f.kind = "unreadable" THEN f.data ELSE f

\* what save_data writes: json.dump of {'books': {id: to_dict}, 'borrowed_records': [...]}
json_document(bks, recs) ==
    [kind |-> "object",
     data |-> [books |-> [i \in DOMAIN bks |->
                            [key |-> bks[i].id, value |-> to_dict(bks[i])]],
               borrowed_records |-> recs]]

\* data.get('books', {}).values()
book_dicts(data) ==
    IF "books" \in DOMAIN data
    THEN [i \in DOMAIN data.books |-> data.books[i].value]
    ELSE <<>>

\* data.get('borrowed_records', [])
record_dicts(data) ==
    IF "borrowed_records" \in DOMAIN data THEN data.borrowed_records ELSE <<>>

\* for book_dict in ...: book = Book.from_dict(book_dict); self.books[book.id] = book
\* (the loop stops at the first entry from_dict raises on)
RECURSIVE load_books(_, _)
load_books(bks, dicts) ==
    IF dicts = <<>> THEN bks
    ELSE IF from_dict_raises(Head(dicts)) THEN bks
    ELSE load_books(dict_set(bks, from_dict(Head(dicts))), Tail(dicts))

\* for book in initial_books: self.books[book.id] = book
RECURSIVE store_books(_, _)
store_books(bks, new) ==
    IF new = <<>> THEN bks
    ELSE store_books(dict_set(bks, Head(new)), Tail(new))

\* the except clause of load_data catches JSONDecodeError and IOError only:
\* AttributeError ([].get) and KeyError (from_dict) leave load_data
load_raises(f) ==
    \/ f.kind = "json_list"
    \/ /\ f.kind = "object"
       /\ \E i \in DOMAIN book_dicts(f.data) :
              from_dict_raises(book_dicts(f.data)[i])

\* load_data on a manager that holds bks and recs (__init__ calls it with
\* books = {} and borrowed_records = []): the books of the file are stored
\* over those in memory, the loan list is replaced by the file's; without a
\* file the sample books are stored and the loan list is left alone; when the
\* file cannot be read or parsed nothing is touched
load_data(bks, recs, f) ==
    IF f.kind = "absent"
    THEN [books |-> store_books(bks, initial_books), borrowed_records |-> recs,
          raised |-> FALSE, msg |-> "INFO_NO_FILE"]
    ELSE IF f.kind \in {"unreadable", "garbage"}
    THEN [books |-> bks, borrowed_records |-> recs,
          raised |-> FALSE, msg |-> "ERROR_LOAD"]
    ELSE IF f.kind = "json_list"
    THEN [books |-> bks, borrowed_records |-> recs,
          raised |-> TRUE, msg |-> "TRACEBACK"]
    ELSE IF load_raises(f)
    THEN [books |-> load_books(bks, book_dicts(f.data)),
          borrowed_records |-> recs,
          raised |-> TRUE, msg |-> "TRACEBACK"]
    ELSE [books |-> load_books(bks, book_dicts(f.data)),
          borrowed_records |-> record_dicts(f.data),
          raised |-> FALSE, msg |-> "INFO_LOADED"]

\* outcomes of open(..., 'w') + json.dump: written; open fails and the file
\* stays as it was; the write fails after open truncated the file
IOOutcomes == {"ok", "denied", "partial"}

\* a slip: the write is tried again until it succeeds
save_data_file_retry(f, bks, recs, io) == json_document(bks, recs)

\* a slip: nothing is written
save_data_file_stale(f, bks, recs, io) == f

\* what open(..., 'w') + json.dump leave at the path: the bytes change, the
\* permissions of the file do not
save_data_file(f, bks, recs, io) ==
    IF io = "denied" THEN f
    ELSE LET written == IF io = "ok" THEN json_document(bks, recs)
                        ELSE GarbageFile
         IN  IF f.kind = "unreadable"
             THEN [kind |-> "unreadable", data |-> written]
             ELSE written

save_data_msg(io) == IF io = "ok" THEN "saved" ELSE "save_error"

\* save_data as a step: the file and the count of I/O errors
SaveData(bks, recs, io) ==
    /\ io # "ok" => io_errors < MaxIOErrors
    /\ file' = save_data_file(file, bks, recs, io)
    /\ io_errors' = IF io = "ok" THEN io_errors ELSE io_errors + 1

NoSave == UNCHANGED <<file, io_errors>>

Output(op, ret, msg, save) == [op |-> op, ret |-> ret, msg |-> msg, save |-> save]

\* ------------------------------------------------------------------------
\* Users and session
\* ------------------------------------------------------------------------

\* the values str(uuid.uuid4()) returns for user ids, in the order it returns
\* them, in the first process and in the one started after it
USER_UUIDS == << <<"u1", "u2", "u3">>, <<"v1", "v2", "v3">> >>

\* names and passwords typed at the login and registration prompts
Usernames == {"admin", "jane_doe", "bob"}
Passwords == {"123", "456"}

User(id, username, password, role) ==
    [id |-> id, username |-> username, password |-> password, role |-> role]

\* CURRENT_USER = None
None == User(NoneId, "", "", "")

\* USERS as the module defines it when process p imports it: the two seeded
\* users, each with an id drawn then
imported_users(p) ==
    << User(USER_UUIDS[p][1], "admin", "123", "staff"),
       User(USER_UUIDS[p][2], "jane_doe", "456", "customer") >>

InitialUsers == imported_users(1)

\* find_user_by_username: the first user of that name, or None
find_user_by_username(users, username) ==
    IF \E i \in DOMAIN users : users[i].username = username
    THEN users[CHOOSE i \in DOMAIN users :
                  /\ users[i].username = username
                  /\ \A j \in 1 .. (i - 1) : users[j].username # username]
    ELSE None

\* a slip: the id of the seeded customer, whoever is logged in
get_user_id_seeded(user) == USER_UUIDS[1][2]

\* get_user_id: CURRENT_USER['id'] if CURRENT_USER else None
get_user_id(user) == user.id

\* ------------------------------------------------------------------------
\* Initial state: LibraryManager() on whatever file is there
\* ------------------------------------------------------------------------

\* library_manager = LibraryManager() stands outside every try: when
\* load_data raises the process ends with a traceback before the first
\* prompt, otherwise initial_user_type_menu() asks its question
startup(loaded) == IF loaded.raised THEN "traceback" ELSE "role_menu"

InitFiles == {AbsentFile, UnreadableFile, GarbageFile, JsonListFile,
              EmptyObjectFile, MissingKeyFile}

Init ==
    \E f \in InitFiles :
        /\ file = f
        /\ books = load_data(<<>>, <<>>, f).books
        /\ borrowed_records = load_data(<<>>, <<>>, f).borrowed_records
        /\ crashed = load_data(<<>>, <<>>, f).raised
        /\ out = Output("load_data", "None", load_data(<<>>, <<>>, f).msg, "none")
        /\ today = Day0
        /\ uuid_count = 0
        /\ io_errors = 0
        /\ report = <<>>
        /\ USERS = InitialUsers
        /\ CURRENT_USER = None
        /\ pc = startup(load_data(<<>>, <<>>, f))
        /\ locals = <<>>
        /\ process = 1
        /\ STD_LIST = <<>>
        /\ num = 0
        /\ turns = 0
        /\ guesses = <<>>

\* ------------------------------------------------------------------------
\* Operations
\* ------------------------------------------------------------------------

\* the prompts of the sub-menus that ask for a book id in a loop
IdPrompts == {"delete_id_prompt", "borrow_id_prompt", "return_id_prompt"}

\* the menu whose loop called the sub-menu: the sub-menu returns to it once
\* delete_book, borrow_book or return_book has returned
caller(p) ==
    CASE p = "delete_id_prompt" -> "book_menu"
      [] p \in {"borrow_id_prompt", "return_id_prompt"} -> "customer_menu"
      [] OTHER -> p

\* uuid.uuid4(): a value never returned before
uuid4 == UUIDS[uuid_count + 1]

\* add_book: Book(title, author, copies) with a fresh id, stored under it
add_book(bks, title, author, copies) ==
    dict_set(bks, Book(title, author, copies, uuid4))

\* a slip: zero passes
copies_rejected_below_zero(copies) == copies < 0

\* if copies <= 0: raise ValueError
copies_rejected(copies) == copies <= 0

\* staff_add_book_menu: the copies prompt refuses copies <= 0 and asks again;
\* a positive count reaches add_book
staff_add_book_menu(title, author, copies, io) ==
    /\ ~crashed
    /\ IF copies_rejected(copies)
       THEN /\ io = "ok"
            /\ out' = Output("add_book", "None", "ERROR_COPIES", "none")
            /\ UNCHANGED <<books, uuid_count>>
            /\ NoSave
       ELSE /\ uuid_count < Len(UUIDS)             \* bound of the model
            /\ books' = add_book(books, title, author, copies)
            /\ uuid_count' = uuid_count + 1
            /\ SaveData(books', borrowed_records, io)
            /\ out' = Output("add_book", uuid4, "SUCCESS", save_data_msg(io))
    /\ report' = <<>>
    /\ UNCHANGED <<borrowed_records, today, crashed>>
    /\ UNCHANGED <<sess, elsewhere>>

\* LibraryManager.add_book called by any caller: no check of copies, the book
\* is stored, the file written and the book returned; it prints nothing of
\* its own
LibraryManager_add_book(title, author, copies, io) ==
    /\ ~crashed
    /\ uuid_count < Len(UUIDS)                         \* bound of the model
    /\ books' = add_book(books, title, author, copies)
    /\ uuid_count' = uuid_count + 1
    /\ SaveData(books', borrowed_records, io)
    /\ out' = Output("add_book", uuid4, "NONE", save_data_msg(io))
    /\ report' = <<>>
    /\ UNCHANGED <<borrowed_records, today, crashed>>
    /\ UNCHANGED <<sess, elsewhere>>

\* a slip: the check is dropped
delete_refused_never(recs, book_id) == FALSE

\* a slip: refuses only from the second borrowed copy on
delete_refused_above_one(recs, book_id) == get_borrowed_count(recs, book_id) > 1

\* if self.get_borrowed_count(book_id) > 0: refuse
delete_refused(recs, book_id) == get_borrowed_count(recs, book_id) > 0

delete_book(book_id, io) ==
    /\ ~crashed
    /\ IF has_book(books, book_id)
       THEN IF delete_refused(borrowed_records, book_id)
            THEN /\ io = "ok"
                 /\ out' = Output("delete_book", "False", "ERROR_BORROWED", "none")
                 /\ UNCHANGED books
                 /\ NoSave
            ELSE /\ books' = dict_del(books, book_id)
                 /\ SaveData(books', borrowed_records, io)
                 /\ out' = Output("delete_book", "True", "SUCCESS", save_data_msg(io))
       ELSE /\ io = "ok"
            /\ out' = Output("delete_book", "False", "ERROR_NOT_FOUND", "none")
            /\ UNCHANGED books
            /\ NoSave
    /\ report' = <<>>
    /\ UNCHANGED <<borrowed_records, today, uuid_count, crashed>>
    /\ pc' = caller(pc)
    /\ UNCHANGED <<USERS, CURRENT_USER, locals>>
    /\ UNCHANGED elsewhere

\* a slip: the limit one too low
limit_reached_at_two(recs, user_id) ==
    user_loan_count(recs, user_id) >= BORROW_LIMIT - 1

\* a slip: > for >=
limit_reached_gt(recs, user_id) == user_loan_count(recs, user_id) > BORROW_LIMIT

\* sum(1 for r in ... if r['user_id'] == user_id) >= 3
limit_reached(recs, user_id) == user_loan_count(recs, user_id) >= BORROW_LIMIT

\* a slip: one day more
due_date_for_eight(day) == strftime(day + LOAN_DAYS + 1)

\* (today + timedelta(days=7)).strftime("%Y-%m-%d")
due_date_for(day) == strftime(day + LOAN_DAYS)

new_record(user_id, book_id, day) ==
    [user_id |-> user_id, book_id |-> book_id, due_date |-> due_date_for(day)]

borrow_book(book_id, user_id, io) ==
    /\ ~crashed
    /\ IF user_id = NoneId
       THEN /\ io = "ok"
            /\ out' = Output("borrow_book", "None", "NONE", "none")
            /\ UNCHANGED borrowed_records
            /\ NoSave
       ELSE IF limit_reached(borrowed_records, user_id)
       THEN /\ io = "ok"
            /\ out' = Output("borrow_book", "None", "ERROR_LIMIT", "none")
            /\ UNCHANGED borrowed_records
            /\ NoSave
       ELSE IF ~has_book(books, book_id)
       THEN /\ io = "ok"
            /\ out' = Output("borrow_book", "None", "ERROR_NOT_FOUND", "none")
            /\ UNCHANGED borrowed_records
            /\ NoSave
       ELSE IF available_copies(books, borrowed_records, book_id) > 0
       THEN /\ Len(borrowed_records) < MaxLoans    \* bound of the model
            /\ borrowed_records' =
                  Append(borrowed_records, new_record(user_id, book_id, today))
            /\ SaveData(books, borrowed_records', io)
            /\ out' = Output("borrow_book", "None", "SUCCESS", save_data_msg(io))
       ELSE /\ io = "ok"
            /\ out' = Output("borrow_book", "None", "ERROR_ALL_BORROWED", "none")
            /\ UNCHANGED borrowed_records
            /\ NoSave
    /\ report' = <<>>
    /\ UNCHANGED <<books, today, uuid_count, crashed>>
    /\ pc' = caller(pc)
    /\ UNCHANGED <<USERS, CURRENT_USER, locals>>
    /\ UNCHANGED elsewhere

\* r['user_id'] == user_id and r['book_id'] == book_id
record_matches(r, book_id, user_id) ==
    r.user_id = user_id /\ r.book_id = book_id

\* a slip: the last match instead of the first
record_to_remove_last(recs, book_id, user_id) ==
    IF \E i \in DOMAIN recs : record_matches(recs[i], book_id, user_id)
    THEN CHOOSE i \in DOMAIN recs :
            /\ record_matches(recs[i], book_id, user_id)
            /\ \A j \in (i + 1) .. Len(recs) :
                   ~record_matches(recs[j], book_id, user_id)
    ELSE 0

\* next((r for r in self.borrowed_records if ...), None): index of the first match, 0 for None
record_to_remove(recs, book_id, user_id) ==
    IF \E i \in DOMAIN recs : record_matches(recs[i], book_id, user_id)
    THEN CHOOSE i \in DOMAIN recs :
            /\ record_matches(recs[i], book_id, user_id)
            /\ \A j \in 1 .. (i - 1) : ~record_matches(recs[j], book_id, user_id)
    ELSE 0

return_book(book_id, user_id, io) ==
    /\ ~crashed
    /\ IF user_id = NoneId
       THEN /\ io = "ok"
            /\ out' = Output("return_book", "None", "NONE", "none")
            /\ UNCHANGED borrowed_records
            /\ NoSave
       ELSE IF record_to_remove(borrowed_records, book_id, user_id) # 0
       THEN /\ borrowed_records' =
                  list_remove(borrowed_records,
                      borrowed_records[record_to_remove(borrowed_records,
                                                        book_id, user_id)])
            /\ SaveData(books, borrowed_records', io)
            /\ out' = Output("return_book", "None", "SUCCESS", save_data_msg(io))
       ELSE /\ io = "ok"
            /\ out' = Output("return_book", "None", "ERROR_NO_RECORD", "none")
            /\ UNCHANGED borrowed_records
            /\ NoSave
    /\ report' = <<>>
    /\ UNCHANGED <<books, today, uuid_count, crashed>>
    /\ pc' = caller(pc)
    /\ UNCHANGED <<USERS, CURRENT_USER, locals>>
    /\ UNCHANGED elsewhere

\* a slip: <= for <
is_overdue_le(r, day) == fromisoformat(r.due_date) <= day

\* due_date = date.fromisoformat(record['due_date']); if due_date < today
is_overdue(r, day) == fromisoformat(r.due_date) < day

overdue_count(recs, day) ==
    Cardinality({i \in DOMAIN recs : is_overdue(recs[i], day)})

total_copies(bks) == SumSeq([i \in DOMAIN bks |-> bks[i].copies])

\* the four numbers generate_simple_report prints
report_numbers(bks, recs, day) ==
    <<Len(bks), total_copies(bks), Len(recs), overdue_count(recs, day)>>

generate_simple_report ==
    /\ ~crashed
    /\ report' = report_numbers(books, borrowed_records, today)
    /\ out' = Output("generate_simple_report", "None", "REPORT", "none")
    /\ UNCHANGED <<books, borrowed_records, file, today, uuid_count,
                   io_errors, crashed>>
    /\ UNCHANGED <<sess, elsewhere>>

\* save_data called on its own (the menus call it on logout and exit)
save_data(io) ==
    /\ ~crashed
    /\ SaveData(books, borrowed_records, io)
    /\ out' = Output("save_data", "None", "NONE", save_data_msg(io))
    /\ report' = <<>>
    /\ UNCHANGED <<books, borrowed_records, today, uuid_count, crashed>>
    /\ UNCHANGED <<sess, elsewhere>>

\* the process ends and is started again: LibraryManager() loads the file
LibraryManager ==
    /\ ~crashed
    /\ books' = load_data(<<>>, <<>>, file).books
    /\ borrowed_records' = load_data(<<>>, <<>>, file).borrowed_records
    /\ crashed' = load_data(<<>>, <<>>, file).raised
    /\ out' = Output("load_data", "None", load_data(<<>>, <<>>, file).msg, "none")
    /\ report' = <<>>
    /\ UNCHANGED <<file, today, uuid_count, io_errors>>
    /\ UNCHANGED <<sess, elsewhere>>

\* load_data called on the live manager: what the file holds is put over
\* what memory holds
LibraryManager_load_data ==
    /\ ~crashed
    /\ books' = load_data(books, borrowed_records, file).books
    /\ borrowed_records' =
           load_data(books, borrowed_records, file).borrowed_records
    /\ crashed' = load_data(books, borrowed_records, file).raised
    /\ out' = Output("load_data", "None",
                     load_data(books, borrowed_records, file).msg, "none")
    /\ report' = <<>>
    /\ UNCHANGED <<file, today, uuid_count, io_errors>>
    /\ UNCHANGED <<sess, elsewhere>>

\* the calendar moves on between two calls
Tick(k) ==
    /\ ~crashed
    /\ today + k <= Day0 + MaxDays
    /\ today' = today + k
    /\ UNCHANGED <<books, borrowed_records, file, uuid_count, io_errors,
                   crashed, out, report>>
    /\ UNCHANGED <<sess, elsewhere>>

\* the store driven call by call, on one day, with a disk that works
Next ==
    \/ \E t \in Titles, a \in Authors, c \in CopiesInput :
           staff_add_book_menu(t, a, c, "ok")
    \/ \E t \in Titles, a \in Authors, c \in CopiesInput :
           LibraryManager_add_book(t, a, c, "ok")
    \/ \E b \in DeleteInputs : delete_book(b, "ok")
    \/ \E b \in BookIdInputs, u \in Users : borrow_book(b, u, "ok")
    \/ borrow_book("1", NoneId, "ok")
    \/ \E b \in BookIdInputs, u \in Users : return_book(b, u, "ok")
    \/ return_book("1", NoneId, "ok")
    \/ generate_simple_report
    \/ save_data("ok")
    \/ LibraryManager
    \/ LibraryManager_load_data

Spec == Init /\ [][Next]_vars

\* one customer and two titles, over days that pass
ClockBooks == {"1", "3"}

NextClock ==
    \/ \E b \in ClockBooks : borrow_book(b, "u1", "ok")
    \/ \E b \in ClockBooks : return_book(b, "u1", "ok")
    \/ \E b \in ClockBooks : delete_book(b, "ok")
    \/ \E t \in Titles, a \in Authors : staff_add_book_menu(t, a, 2, "ok")
    \/ generate_simple_report
    \/ LibraryManager
    \/ LibraryManager_load_data
    \/ \E k \in DayJumps : Tick(k)

SpecClock == Init /\ [][NextClock]_vars

\* one customer and two titles, on a disk whose writes may fail
DiskBooks == {"3", "uuid-a"}

NextDisk ==
    \/ \E io \in IOOutcomes : staff_add_book_menu("Dune", "Herbert", 1, io)
    \/ \E b \in DiskBooks, io \in IOOutcomes : delete_book(b, io)
    \/ \E b \in DiskBooks, io \in IOOutcomes : borrow_book(b, "u1", io)
    \/ \E b \in DiskBooks, io \in IOOutcomes : return_book(b, "u1", io)
    \/ \E io \in IOOutcomes : save_data(io)
    \/ LibraryManager
    \/ LibraryManager_load_data

SpecDisk == Init /\ [][NextDisk]_vars

\* ------------------------------------------------------------------------
\* Listings: what the read-only methods print
\* ------------------------------------------------------------------------

\* str.lower() on the queries typed at the search prompt
lower(query) ==
    CASE query = "Her" -> "her"
      [] query = "Q" -> "q"
      [] OTHER -> query

\* query in text.lower(), for the titles and authors of the catalog
contains(query, text) ==
    \/ query = "her" /\ text \in {"Herbert", "Herman Melville"}
    \/ query = "1984" /\ text = "1984"

\* texts typed at the search prompt
Queries == {"Her", "1984", "zzz", "Q"}

store_unchanged ==
    UNCHANGED <<books, borrowed_records, file, today, uuid_count, io_errors,
                crashed>>

\* a read-only method prints its rows; the next input is read at prompt target
shows(op, rows, msg, target) ==
    /\ ~crashed
    /\ report' = rows
    /\ out' = Output(op, "None", msg, "none")
    /\ pc' = target
    /\ store_unchanged
    /\ UNCHANGED <<USERS, CURRENT_USER, locals>>
    /\ UNCHANGED elsewhere

\* one line per book: id, title, author, copies, available
book_database(bks, recs) ==
    [i \in DOMAIN bks |->
        <<bks[i].id, bks[i].title, bks[i].author, bks[i].copies,
          available_copies(bks, recs, bks[i].id)>>]

display_book_database_at(target) ==
    shows("display_book_database", book_database(books, borrowed_records),
          IF books = <<>> THEN "INFO_EMPTY" ELSE "CATALOG", target)

display_book_database == display_book_database_at(pc)

search_results(bks, recs, query) ==
    LET hits == SelectSeq(bks, LAMBDA b : \/ contains(lower(query), b.title)
                                          \/ contains(lower(query), b.author))
    IN  [i \in DOMAIN hits |->
            <<hits[i].id, hits[i].title, hits[i].author,
              available_copies(bks, recs, hits[i].id)>>]

search_books(query) ==
    /\ ~crashed
    /\ report' = search_results(books, borrowed_records, query)
    /\ out' = Output("search_books", "None",
                     IF report' = <<>> THEN "INFO_NO_MATCH" ELSE "RESULTS", "none")
    /\ store_unchanged
    /\ UNCHANGED <<sess, elsewhere>>

\* the books with a copy left: id, title, author, available copies
available_books(bks, recs) ==
    LET avail == SelectSeq(bks, LAMBDA b : available_copies(bks, recs, b.id) > 0)
    IN  [i \in DOMAIN avail |->
            <<avail[i].id, avail[i].title, avail[i].author,
              available_copies(bks, recs, avail[i].id)>>]

\* a slip: the books without a copy left are dropped from the catalog itself
view_available_books_pruning ==
    /\ ~crashed
    /\ report' = available_books(books, borrowed_records)
    /\ out' = Output("view_available_books", "None",
                     IF report' = <<>> THEN "INFO_NONE_AVAILABLE" ELSE "AVAILABLE",
                     "none")
    /\ books' = SelectSeq(books, LAMBDA b :
                    available_copies(books, borrowed_records, b.id) > 0)
    /\ UNCHANGED <<borrowed_records, file, today, uuid_count, io_errors, crashed>>
    /\ UNCHANGED <<sess, elsewhere>>

view_available_books_at(target) ==
    shows("view_available_books", available_books(books, borrowed_records),
          IF available_books(books, borrowed_records) = <<>>
          THEN "INFO_NONE_AVAILABLE" ELSE "AVAILABLE", target)

view_available_books == view_available_books_at(pc)

\* the user's loans whose book is still in the catalog: id, title, due date
my_books(bks, recs, user_id) ==
    LET mine == SelectSeq(recs, LAMBDA r : r.user_id = user_id)
        shown == SelectSeq(mine, LAMBDA r : has_book(bks, r.book_id))
    IN  [i \in DOMAIN shown |->
            <<shown[i].book_id, book_at(bks, shown[i].book_id).title,
              shown[i].due_date>>]

view_my_books_at(user_id, target) ==
    IF user_id = NoneId
    THEN shows("view_my_books", <<>>, "NONE", target)
    ELSE shows("view_my_books", my_books(books, borrowed_records, user_id),
               IF user_loan_count(borrowed_records, user_id) = 0
               THEN "INFO_NO_LOANS" ELSE "MY_BOOKS", target)

view_my_books(user_id) == view_my_books_at(user_id, pc)

\* book.title if book else "Unknown Book (ID: {})".format(record['book_id'])
book_title(bks, book_id) ==
    IF has_book(bks, book_id) THEN book_at(bks, book_id).title
    ELSE "Unknown Book (ID: " \o book_id \o ")"

\* per customer: username, id, and title and due date of each loan
customers_books(users, bks, recs) ==
    LET customers == SelectSeq(users, LAMBDA u : u.role = "customer")
    IN  [i \in DOMAIN customers |->
            LET borrowed == SelectSeq(recs,
                                LAMBDA r : r.user_id = customers[i].id)
            IN  <<customers[i].username, customers[i].id,
                  [j \in DOMAIN borrowed |->
                      <<book_title(bks, borrowed[j].book_id),
                        borrowed[j].due_date>>]>>]

view_customers_books ==
    /\ ~crashed
    /\ report' = customers_books(USERS, books, borrowed_records)
    /\ out' = Output("view_customers_books", "None",
                     IF report' = <<>> THEN "INFO_NO_CUSTOMERS" ELSE "CUSTOMERS",
                     "none")
    /\ store_unchanged
    /\ UNCHANGED <<sess, elsewhere>>

\* ------------------------------------------------------------------------
\* Login and registration
\* ------------------------------------------------------------------------

\* the main loop: a logged-in user gets the menu of their role
main_loop(user) ==
    IF user = None THEN "role_menu"
    ELSE IF user.role = "staff" THEN "staff_menu"
    ELSE "customer_menu"

\* a slip: the role is not compared
login_ok_any_role(user, password, role) ==
    user # None /\ user.password = password

\* if user and user['password'] == password and user['role'] == role
login_ok(user, password, role) ==
    user # None /\ user.password = password /\ user.role = role

\* authenticate_staff and customer_login, which differ in the role only
login(op, role, username, password) ==
    /\ ~crashed
    /\ LET user == find_user_by_username(USERS, username)
       IN  IF login_ok(user, password, role)
           THEN /\ CURRENT_USER' = user
                /\ pc' = main_loop(user)
                /\ out' = Output(op, "True", "SUCCESS", "none")
           ELSE /\ pc' = "role_menu"
                /\ out' = Output(op, "False", "ERROR_CREDENTIALS", "none")
                /\ UNCHANGED CURRENT_USER
    /\ report' = <<>>
    /\ store_unchanged
    /\ UNCHANGED <<USERS, locals>>
    /\ UNCHANGED elsewhere

authenticate_staff(username, password) ==
    pc = "staff_login" /\ login("authenticate_staff", "staff", username, password)

customer_login(username, password) ==
    pc = "customer_login" /\ login("customer_login", "customer", username, password)

\* a slip: only the first user is compared
username_taken_first_only(users, username) == users[1].username = username

\* if find_user_by_username(username): the name is taken
username_taken(users, username) == find_user_by_username(users, username) # None

\* register_staff and customer_register, which differ in the role only: a
\* taken name is refused and asked again, a free one is appended and logged in
register(op, role, username, password) ==
    /\ ~crashed
    /\ IF username_taken(USERS, username)
       THEN /\ out' = Output(op, "None", "ERROR_USERNAME_EXISTS", "none")
            /\ UNCHANGED <<USERS, CURRENT_USER, pc>>
       ELSE /\ Len(USERS) < Len(USER_UUIDS[process])     \* bound of the model
            /\ LET new_user == User(USER_UUIDS[process][Len(USERS) + 1],
                                    username, password, role)
               IN  /\ USERS' = Append(USERS, new_user)
                   /\ CURRENT_USER' = new_user
                   /\ pc' = main_loop(new_user)
            /\ out' = Output(op, "True", "SUCCESS", "none")
    /\ report' = <<>>
    /\ store_unchanged
    /\ UNCHANGED locals
    /\ UNCHANGED elsewhere

register_staff(username, password) ==
    pc = "staff_register" /\ register("register_staff", "staff", username, password)

customer_register(username, password) ==
    pc = "customer_register"
    /\ register("customer_register", "customer", username, password)

\* ------------------------------------------------------------------------
\* Menus
\* ------------------------------------------------------------------------

\* choices typed at a menu prompt ("9" is not on any menu)
Choices == {"1", "2", "3", "4", "5", "6", "9"}

\* the prompt moves on and nothing else happens
goto(op, target) ==
    /\ pc' = target
    /\ out' = Output(op, "None", "NONE", "none")
    /\ report' = <<>>
    /\ store_unchanged
    /\ UNCHANGED <<USERS, CURRENT_USER, locals>>
    /\ UNCHANGED elsewhere

\* a message is printed and the same prompt comes again
say(op, msg) ==
    /\ out' = Output(op, "None", msg, "none")
    /\ report' = <<>>
    /\ store_unchanged
    /\ UNCHANGED <<sess, elsewhere>>

\* a slip: CURRENT_USER is not reset, so the main loop shows the menu again
logout_keeps_user(op, msg) ==
    /\ SaveData(books, borrowed_records, "ok")
    /\ pc' = (IF CURRENT_USER.role = "staff" THEN "staff_menu" ELSE "customer_menu")
    /\ locals' = <<>>
    /\ out' = Output(op, "None", msg, save_data_msg("ok"))
    /\ report' = <<>>
    /\ UNCHANGED <<books, borrowed_records, today, uuid_count, crashed, USERS,
                   CURRENT_USER>>
    /\ UNCHANGED elsewhere

\* manager.save_data(); CURRENT_USER = None; return
logout(op, msg) ==
    /\ SaveData(books, borrowed_records, "ok")
    /\ CURRENT_USER' = None
    /\ pc' = "role_menu"
    /\ locals' = <<>>
    /\ out' = Output(op, "None", msg, save_data_msg("ok"))
    /\ report' = <<>>
    /\ UNCHANGED <<books, borrowed_records, today, uuid_count, crashed, USERS>>
    /\ UNCHANGED elsewhere

\* manager.save_data(); sys.exit(0) (or break, in the main loop)
exit_application(op) ==
    /\ SaveData(books, borrowed_records, "ok")
    /\ pc' = "exited"
    /\ out' = Output(op, "None", "GOODBYE", save_data_msg("ok"))
    /\ report' = <<>>
    /\ UNCHANGED <<books, borrowed_records, today, uuid_count, crashed,
                   USERS, CURRENT_USER, locals>>
    /\ UNCHANGED elsewhere

initial_user_type_menu(choice) ==
    /\ ~crashed
    /\ pc = "role_menu"
    /\ CASE choice = "1" -> goto("initial_user_type_menu", "staff_access")
         [] choice = "2" -> goto("initial_user_type_menu", "customer_access")
         [] choice = "3" -> exit_application("initial_user_type_menu")
         [] OTHER -> say("initial_user_type_menu", "ERROR_INVALID_CHOICE")

\* any other choice falls through to the top of the main loop
staff_login_type_menu(choice) ==
    /\ ~crashed
    /\ pc = "staff_access"
    /\ CASE choice = "1" -> goto("staff_login_type_menu", "staff_login")
         [] choice = "2" -> goto("staff_login_type_menu", "staff_register")
         [] OTHER -> goto("staff_login_type_menu", "role_menu")

customer_access_menu(choice) ==
    /\ ~crashed
    /\ pc = "customer_access"
    /\ CASE choice = "1" -> goto("customer_access_menu", "customer_login")
         [] choice = "2" -> goto("customer_access_menu", "customer_register")
         [] OTHER -> goto("customer_access_menu", "role_menu")

staff_main_menu(choice) ==
    /\ ~crashed
    /\ pc = "staff_menu"
    /\ CASE choice = "1" -> view_customers_books
         [] choice = "2" -> goto("staff_main_menu", "book_menu")
         [] choice = "3" -> generate_simple_report
         [] choice = "4" -> logout("staff_main_menu", "INFO_LOGGED_OUT")
         [] choice = "5" -> exit_application("staff_main_menu")
         [] OTHER -> say("staff_main_menu", "ERROR_INVALID_CHOICE")

\* ids typed at the delete, borrow and return prompts
PromptIds == {"3", "uuid-a", "zzz", "q", "Q"}

\* staff_delete_book_menu up to its prompt: the catalog is listed; with an
\* empty catalog the sub-menu returns, otherwise it asks for an id
staff_delete_book_menu ==
    display_book_database_at(IF books = <<>> THEN "book_menu"
                             ELSE "delete_id_prompt")

\* the id prompt of staff_delete_book_menu (while True): q or Q cancels, an
\* id of the catalog reaches delete_book and the sub-menu returns, anything
\* else is refused and the prompt comes again
delete_id_prompt(book_id) ==
    /\ ~crashed
    /\ pc = "delete_id_prompt"
    /\ IF lower(book_id) = "q"
       THEN goto("staff_delete_book_menu", "book_menu")
       ELSE IF has_book(books, book_id) THEN delete_book(book_id, "ok")
       ELSE say("staff_delete_book_menu", "ERROR_INVALID_ID")

staff_search_menu(query) ==
    IF lower(query) # "q" THEN search_books(query)
    ELSE say("staff_search_menu", "NONE")

staff_book_management_menu(choice, title, author, query) ==
    /\ ~crashed
    /\ pc = "book_menu"
    /\ CASE choice = "1" -> display_book_database
         [] choice = "2" ->
               /\ pc' = "add_copies"
               /\ locals' = <<title, author>>
               /\ out' = Output("staff_add_book_menu", "None", "NONE", "none")
               /\ report' = <<>>
               /\ store_unchanged
               /\ UNCHANGED <<USERS, CURRENT_USER>>
               /\ UNCHANGED elsewhere
         [] choice = "3" -> staff_delete_book_menu
         [] choice = "4" -> staff_search_menu(query)
         [] choice = "5" -> goto("staff_book_management_menu", "staff_menu")
         [] choice = "6" -> exit_application("staff_book_management_menu")
         [] OTHER -> say("staff_book_management_menu", "ERROR_INVALID_CHOICE")

\* the copies prompt of staff_add_book_menu: a count <= 0 is refused and the
\* prompt comes again; a positive count reaches add_book with the title and
\* the author typed before
copies_prompt(copies) ==
    /\ ~crashed
    /\ pc = "add_copies"
    /\ IF copies_rejected(copies)
       THEN /\ out' = Output("add_book", "None", "ERROR_COPIES", "none")
            /\ UNCHANGED <<books, uuid_count, pc, locals>>
            /\ NoSave
       ELSE /\ uuid_count < Len(UUIDS)             \* bound of the model
            /\ books' = add_book(books, locals[1], locals[2], copies)
            /\ uuid_count' = uuid_count + 1
            /\ SaveData(books', borrowed_records, "ok")
            /\ out' = Output("add_book", uuid4, "SUCCESS", save_data_msg("ok"))
            /\ pc' = "book_menu"
            /\ locals' = <<>>
    /\ report' = <<>>
    /\ UNCHANGED <<borrowed_records, today, crashed, USERS, CURRENT_USER>>
    /\ UNCHANGED elsewhere

\* customer_borrow_menu up to its prompt: the available books are listed;
\* without a user id the sub-menu returns, otherwise it asks for an id
customer_borrow_menu ==
    view_available_books_at(IF get_user_id(CURRENT_USER) = NoneId
                            THEN "customer_menu" ELSE "borrow_id_prompt")

\* the id prompt of customer_borrow_menu (while True)
borrow_id_prompt(book_id) ==
    /\ ~crashed
    /\ pc = "borrow_id_prompt"
    /\ IF lower(book_id) = "q"
       THEN goto("customer_borrow_menu", "customer_menu")
       ELSE IF has_book(books, book_id)
            THEN borrow_book(book_id, get_user_id(CURRENT_USER), "ok")
       ELSE say("customer_borrow_menu", "ERROR_INVALID_ID")

\* customer_return_menu up to its prompt: the user's loans are listed;
\* without a user id or without a loan the sub-menu returns, otherwise it
\* asks for an id
customer_return_menu ==
    view_my_books_at(get_user_id(CURRENT_USER),
        IF \/ get_user_id(CURRENT_USER) = NoneId
           \/ user_loan_count(borrowed_records, get_user_id(CURRENT_USER)) = 0
        THEN "customer_menu" ELSE "return_id_prompt")

\* the id prompt of customer_return_menu (while True)
return_id_prompt(book_id) ==
    /\ ~crashed
    /\ pc = "return_id_prompt"
    /\ IF lower(book_id) = "q"
       THEN goto("customer_return_menu", "customer_menu")
       ELSE IF has_book(books, book_id)
            THEN return_book(book_id, get_user_id(CURRENT_USER), "ok")
       ELSE say("customer_return_menu", "ERROR_INVALID_ID")

customer_main_menu(choice) ==
    /\ ~crashed
    /\ pc = "customer_menu"
    /\ CASE choice = "1" -> view_available_books
         [] choice = "2" -> customer_borrow_menu
         [] choice = "3" -> view_my_books(get_user_id(CURRENT_USER))
         [] choice = "4" -> customer_return_menu
         [] choice = "5" -> logout("customer_main_menu", "INFO_LOGGED_OUT")
         [] choice = "6" -> exit_application("customer_main_menu")
         [] OTHER -> say("customer_main_menu", "ERROR_INVALID_CHOICE")

\* the prompts of the login and registration functions
LoginPrompts ==
    {"staff_login", "staff_register", "customer_login", "customer_register"}

\* Ctrl-C while the program waits at a prompt
KeyboardInterrupt ==
    /\ ~crashed
    /\ CASE pc = "role_menu" -> exit_application("KeyboardInterrupt")
         [] pc \in {"staff_access", "customer_access"} ->
               goto("KeyboardInterrupt", "role_menu")
         [] pc \in LoginPrompts ->
               /\ crashed' = TRUE
               /\ pc' = "traceback"
               /\ out' = Output("KeyboardInterrupt", "None", "TRACEBACK", "none")
               /\ report' = <<>>
               /\ UNCHANGED <<books, borrowed_records, file, today, uuid_count,
                              io_errors, USERS, CURRENT_USER, locals>>
               /\ UNCHANGED elsewhere
         [] pc \in {"staff_menu", "customer_menu", "borrow_id_prompt",
                    "return_id_prompt"} ->
               logout("KeyboardInterrupt", "LOGGING_OUT")
         [] pc \in {"book_menu", "add_copies", "delete_id_prompt"} ->
               /\ pc' = "staff_menu"
               /\ locals' = <<>>
               /\ out' = Output("KeyboardInterrupt", "None", "RETURNING", "none")
               /\ report' = <<>>
               /\ store_unchanged
               /\ UNCHANGED <<USERS, CURRENT_USER>>
               /\ UNCHANGED elsewhere
         [] OTHER -> FALSE

\* the program driven prompt by prompt, on one day, with a disk that works
NextCLI ==
    \/ \E c \in {"1", "2", "3", "9"} : initial_user_type_menu(c)
    \/ \E c \in {"1", "2", "3", "9"} : staff_login_type_menu(c)
    \/ \E c \in {"1", "2", "3", "9"} : customer_access_menu(c)
    \/ \E u \in Usernames, p \in Passwords : authenticate_staff(u, p)
    \/ \E u \in Usernames, p \in Passwords : customer_login(u, p)
    \/ \E u \in Usernames, p \in Passwords : register_staff(u, p)
    \/ \E u \in Usernames, p \in Passwords : customer_register(u, p)
    \/ \E c \in Choices : staff_main_menu(c)
    \/ \E c \in Choices, t \in Titles, a \in Authors, q \in Queries :
          staff_book_management_menu(c, t, a, q)
    \/ \E c \in CopiesInput : copies_prompt(c)
    \/ \E b \in PromptIds : delete_id_prompt(b)
    \/ \E c \in Choices : customer_main_menu(c)
    \/ \E b \in PromptIds : borrow_id_prompt(b)
    \/ \E b \in PromptIds : return_id_prompt(b)
    \/ KeyboardInterrupt

SpecCLI == Init /\ [][NextCLI]_vars

\* the program is started again after it ended: the module is imported anew
\* (USERS with fresh ids, CURRENT_USER = None) and LibraryManager() loads the
\* file
main ==
    /\ pc \in {"exited", "traceback"}
    /\ process < Len(USER_UUIDS)                       \* bound of the model
    /\ process' = process + 1
    /\ USERS' = imported_users(process')
    /\ CURRENT_USER' = None
    /\ locals' = <<>>
    /\ books' = load_data(<<>>, <<>>, file).books
    /\ borrowed_records' = load_data(<<>>, <<>>, file).borrowed_records
    /\ crashed' = load_data(<<>>, <<>>, file).raised
    /\ out' = Output("load_data", "None", load_data(<<>>, <<>>, file).msg, "none")
    /\ pc' = startup(load_data(<<>>, <<>>, file))
    /\ report' = <<>>
    /\ UNCHANGED <<file, today, uuid_count, io_errors, STD_LIST, num, turns,
                   guesses>>

\* the program driven prompt by prompt, ended and started again
NextRestart ==
    \/ NextCLI
    \/ main

SpecRestart == Init /\ [][NextRestart]_vars

\* ------------------------------------------------------------------------
\* The student manager (project3.py)
\* ------------------------------------------------------------------------

\* what is typed at the name, roll number and department prompts
Names == {"Jawad", "Ali"}
Rolls == {"01003", "7"}
Departs == {"AI", "CS"}

\* a roll number typed at the edit and delete prompts ("99" is never given)
RollInputs == Rolls \cup {"99"}

Student(name, roll, depart) == [Name |-> name, Roll |-> roll, Depart |-> depart]

\* STD_LIST as the module defines it
InitialStudents == <<Student("Jawad", "01003", "AI")>>

\* the library program is not running
library_idle ==
    /\ books = <<>>
    /\ borrowed_records = <<>>
    /\ file = AbsentFile
    /\ today = Day0
    /\ uuid_count = 0
    /\ io_errors = 0
    /\ crashed = FALSE
    /\ USERS = <<>>
    /\ CURRENT_USER = None
    /\ locals = <<>>
    /\ process = 0

InitStudents ==
    /\ library_idle
    /\ STD_LIST = InitialStudents
    /\ pc = "portal_menu"
    /\ out = Output("portal", "None", "NONE", "none")
    /\ report = <<>>
    /\ num = 0
    /\ turns = 0
    /\ guesses = <<>>

\* what the student manager never touches
library_unchanged ==
    UNCHANGED <<books, borrowed_records, file, today, uuid_count, io_errors,
                crashed, USERS, CURRENT_USER, locals, process>>

\* one line per student: number, name, roll, department
show_student_list ==
    /\ pc = "portal_menu"
    /\ report' = [i \in DOMAIN STD_LIST |->
                    <<i, STD_LIST[i].Name, STD_LIST[i].Roll, STD_LIST[i].Depart>>]
    /\ out' = Output("show_student_list", "None",
                     IF STD_LIST = <<>> THEN "INFO_EMPTY" ELSE "LIST", "none")
    /\ library_unchanged
    /\ UNCHANGED <<STD_LIST, pc, num, turns, guesses>>

\* STD_LIST.append(data)
add_student(data) ==
    /\ pc = "portal_menu"
    /\ Len(STD_LIST) < MaxStudents                  \* bound of the model
    /\ STD_LIST' = Append(STD_LIST, data)
    /\ out' = Output("add_student", "None", "SUCCESS", "none")
    /\ report' = <<>>
    /\ library_unchanged
    /\ UNCHANGED <<pc, num, turns, guesses>>

\* a slip: the last student of that roll number
roll_index_last(students, roll_number) ==
    IF \E i \in DOMAIN students : students[i].Roll = roll_number
    THEN CHOOSE i \in DOMAIN students :
            /\ students[i].Roll = roll_number
            /\ \A j \in (i + 1) .. Len(students) : students[j].Roll # roll_number
    ELSE 0

\* for student in STD_LIST: if student['Roll'] == roll_number: the index of
\* the first such student, 0 when the loop ends without one
roll_index(students, roll_number) ==
    IF \E i \in DOMAIN students : students[i].Roll = roll_number
    THEN CHOOSE i \in DOMAIN students :
            /\ students[i].Roll = roll_number
            /\ \A j \in 1 .. (i - 1) : students[j].Roll # roll_number
    ELSE 0

\* edit_student: the first student of that roll number gets the new name,
\* roll number and department, in place
edit_student(roll_number, new_name, new_roll, new_depart) ==
    /\ pc = "portal_menu"
    /\ LET k == roll_index(STD_LIST, roll_number)
       IN  IF k # 0
           THEN /\ STD_LIST' = [STD_LIST EXCEPT
                                  ![k] = Student(new_name, new_roll, new_depart)]
                /\ out' = Output("edit_student", "None", "SUCCESS", "none")
           ELSE /\ out' = Output("edit_student", "None", "ERROR_NOT_EXISTS", "none")
                /\ UNCHANGED STD_LIST
    /\ report' = <<>>
    /\ library_unchanged
    /\ UNCHANGED <<pc, num, turns, guesses>>

\* delete_student: STD_LIST.remove(student) for the first student of that
\* roll number, which drops the first element equal to it
delete_student(roll_number) ==
    /\ pc = "portal_menu"
    /\ LET k == roll_index(STD_LIST, roll_number)
       IN  IF k # 0
           THEN /\ STD_LIST' = list_remove(STD_LIST, STD_LIST[k])
                /\ out' = Output("delete_student", "None", "SUCCESS", "none")
           ELSE /\ out' = Output("delete_student", "None", "ERROR_NOT_EXISTS", "none")
                /\ UNCHANGED STD_LIST
    /\ report' = <<>>
    /\ library_unchanged
    /\ UNCHANGED <<pc, num, turns, guesses>>

\* the main loop of the portal: 5 exits, a number off the menu and a text
\* that is no number are refused
portal(choice) ==
    /\ pc = "portal_menu"
    /\ IF choice = "5"
       THEN /\ pc' = "exited"
            /\ out' = Output("portal", "None", "GOODBYE", "none")
       ELSE /\ pc' = pc
            /\ out' = Output("portal", "None",
                             IF choice = "abc" THEN "ERROR_INVALID_INPUT"
                             ELSE "ERROR_INVALID_CHOICE", "none")
    /\ report' = <<>>
    /\ library_unchanged
    /\ UNCHANGED <<STD_LIST, num, turns, guesses>>

NextStudents ==
    \/ show_student_list
    \/ \E n \in Names, r \in Rolls, d \in Departs : add_student(Student(n, r, d))
    \/ \E r \in RollInputs, n \in Names, r2 \in Rolls, d \in Departs :
           edit_student(r, n, r2, d)
    \/ \E r \in RollInputs : delete_student(r)
    \/ \E c \in {"5", "9", "abc"} : portal(c)

SpecStudents == InitStudents /\ [][NextStudents]_vars

\* ------------------------------------------------------------------------
\* The guessing game (project2.py)
\* ------------------------------------------------------------------------

\* random.randint(1, 100)
SecretNumbers == 1 .. 100

\* whole numbers typed at the guess prompt
GuessInputs == {0 - 7, 1, 50, 100, 101}

InitGame ==
    /\ library_idle
    /\ STD_LIST = <<>>
    /\ num \in SecretNumbers
    /\ turns = 0
    /\ guesses = <<>>
    /\ pc = "guess_prompt"
    /\ out = Output("game", "None", "NONE", "none")
    /\ report = <<>>

\* a slip: the two hints change places
hint_swapped(guess, n) ==
    IF guess = n THEN "RIGHT"
    ELSE IF guess < n THEN "LESSER"
    ELSE "BIGGER"

\* if guess == num ... elif guess < num ... elif guess > num
hint(guess, n) ==
    IF guess = n THEN "RIGHT"
    ELSE IF guess < n THEN "BIGGER"
    ELSE "LESSER"

\* a slip: the counter as it is
turns_reported_raw(t) == t

\* print("Number of turns = ", turns + 1)
turns_reported(t) == t + 1

\* one pass of the game loop: a guess is read; the right one ends the loop
\* and the number of turns is printed, a wrong one gets its hint and is counted
game_loop(guess) ==
    /\ pc = "guess_prompt"
    /\ guesses' = Append(guesses, guess)
    /\ out' = Output("game_loop", "None", hint(guess, num), "none")
    /\ IF guess = num
       THEN /\ pc' = "done"
            /\ report' = <<turns_reported(turns)>>
            /\ UNCHANGED turns
       ELSE /\ turns < MaxTurns                     \* bound of the model
            /\ turns' = turns + 1
            /\ report' = <<>>
            /\ UNCHANGED pc
    /\ library_unchanged
    /\ UNCHANGED <<STD_LIST, num>>

NextGame == \E g \in GuessInputs : game_loop(g)

SpecGame == InitGame /\ [][NextGame]_vars

\* ------------------------------------------------------------------------
\* Properties
\* ------------------------------------------------------------------------

\* counts taken directly on the state
BorrowedOf(recs, b) == Cardinality({i \in DOMAIN recs : recs[i].book_id = b})
LoansOf(recs, u) == Cardinality({i \in DOMAIN recs : recs[i].user_id = u})
CopiesOf(bks, b) == bks[CHOOSE i \in DOMAIN bks : bks[i].id = b].copies
InCatalog(bks, b) == \E i \in DOMAIN bks : bks[i].id = b
AvailableOf(bks, recs, b) == CopiesOf(bks, b) - BorrowedOf(recs, b)
CatalogIds(bks) == {bks[i].id : i \in DOMAIN bks}

\* C1: every book of the catalog has 0 <= borrowedCount <= copies, in every
\* state reached by adding, deleting, borrowing, returning, saving and loading
C1_BorrowedWithinCopies ==
    \A i \in DOMAIN books :
        /\ 0 <= BorrowedOf(borrowed_records, books[i].id)
        /\ BorrowedOf(borrowed_records, books[i].id) <= books[i].copies

\* a borrow has just taken the last copy of a book that has several
C1_Witness ==
    /\ out.op = "borrow_book" /\ out.msg = "SUCCESS"
    /\ \E i \in DOMAIN books :
          /\ books[i].copies > 1
          /\ BorrowedOf(borrowed_records, books[i].id) = books[i].copies

\* C2: no user ever holds more than 3 loan records
C2_AtMostThreeLoans ==
    \A u \in Users : LoansOf(borrowed_records, u) <= 3

\* a user who holds 3 loans has just been refused a fourth, another user holds one
C2_Witness ==
    /\ out.op = "borrow_book" /\ out.msg = "ERROR_LIMIT"
    /\ \E u \in Users : LoansOf(borrowed_records, u) = 3
    /\ Len(borrowed_records) = 4

\* C3: delete_book on a book with at least one loan record returns False and
\* leaves the catalog, the loan list and the file as they were
C3_DeleteBorrowedFails ==
    [][out'.op = "delete_book" =>
        \A b \in BookIdInputs :
          (/\ InCatalog(books, b)
           /\ BorrowedOf(borrowed_records, b) > 0
           /\ delete_book(b, "ok"))
          => (/\ out'.ret = "False"
              /\ books' = books
              /\ borrowed_records' = borrowed_records
              /\ file' = file)]_vars

\* delete_book has just refused a borrowed book
C3_Witness ==
    /\ out.op = "delete_book" /\ out.ret = "False" /\ out.msg = "ERROR_BORROWED"
    /\ \E b \in DeleteInputs :
          InCatalog(books, b) /\ BorrowedOf(borrowed_records, b) > 0

\* C4: a successful borrow of b lowers available(b) by exactly 1, a successful
\* return raises it by exactly 1; the other books' availability and every
\* book's copies stay as they were
C4_AvailabilityStep ==
    [][out'.msg = "SUCCESS" /\ out'.op \in {"borrow_book", "return_book"} =>
        \A b \in BookIdInputs, u \in Users :
          /\ (out'.op = "borrow_book" /\ borrow_book(b, u, "ok"))
             => (/\ books' = books
                 /\ AvailableOf(books', borrowed_records', b)
                      = AvailableOf(books, borrowed_records, b) - 1
                 /\ \A c \in CatalogIds(books) \ {b} :
                      AvailableOf(books', borrowed_records', c)
                        = AvailableOf(books, borrowed_records, c))
          /\ (out'.op = "return_book" /\ return_book(b, u, "ok"))
             => (/\ books' = books
                 /\ AvailableOf(books', borrowed_records', b)
                      = AvailableOf(books, borrowed_records, b) + 1
                 /\ \A c \in CatalogIds(books) \ {b} :
                      AvailableOf(books', borrowed_records', c)
                        = AvailableOf(books, borrowed_records, c))]_vars

\* a return has just succeeded for a user who still holds another copy of
\* the same book, borrowed the same day
C4_Witness ==
    /\ out.op = "return_book" /\ out.msg = "SUCCESS"
    /\ \E i \in DOMAIN borrowed_records, j \in DOMAIN borrowed_records :
          i # j /\ borrowed_records[i] = borrowed_records[j]

\* C5 as stated: saving any reachable state and loading the file into a new
\* store gives the same catalog and the same loan list
C5_Original ==
    LET loaded == load_data(<<>>, <<>>,
                           save_data_file(file, books, borrowed_records, "ok"))
    IN  /\ ~loaded.raised
        /\ loaded.books = books
        /\ loaded.borrowed_records = borrowed_records

\* C5 as amended: when the process may read the file it writes, saving a
\* reachable state and loading the file into a new store gives the same
\* catalog (ids, titles, authors, copies, in order) and the same loan list
\* (user_id, book_id, due_date, in order), and a store loaded from a saved
\* file holds exactly what the file records; on a file it may write but not
\* read the save succeeds, the document written is the state saved, and the
\* load reports the failure and starts empty
C5_RoundTrip ==
    LET saved == save_data_file(file, books, borrowed_records, "ok")
        loaded == load_data(<<>>, <<>>, saved)
    IN  /\ ~loaded.raised
        /\ content(saved) = json_document(books, borrowed_records)
        /\ file.kind # "unreadable" =>
              /\ loaded.books = books
              /\ loaded.borrowed_records = borrowed_records
              /\ loaded.msg = "INFO_LOADED"
        /\ file.kind = "unreadable" =>
              /\ saved.kind = "unreadable"
              /\ loaded.books = <<>>
              /\ loaded.borrowed_records = <<>>
              /\ loaded.msg = "ERROR_LOAD"
        /\ (out.msg = "INFO_LOADED" /\ file # EmptyObjectFile)
              => file = json_document(books, borrowed_records)

\* a store has just been loaded from a saved file with several books and
\* loans of different due dates
C5_Witness ==
    /\ out.op = "load_data" /\ out.msg = "INFO_LOADED"
    /\ Len(books) >= 3
    /\ Len(borrowed_records) >= 2
    /\ borrowed_records[1].due_date # borrowed_records[2].due_date

\* C6: borrow_book appends no record and changes neither the catalog, the
\* loan list nor the file when the user already holds 3 or more loans, or the
\* book id is unknown, or no copy is available
C6_BorrowRefused ==
    [][out'.op = "borrow_book" =>
        \A b \in BookIdInputs, u \in Users :
          (/\ borrow_book(b, u, "ok")
           /\ \/ LoansOf(borrowed_records, u) >= 3
              \/ ~InCatalog(books, b)
              \/ AvailableOf(books, borrowed_records, b) = 0)
          => (/\ out'.msg \in {"ERROR_LIMIT", "ERROR_NOT_FOUND",
                               "ERROR_ALL_BORROWED"}
              /\ borrowed_records' = borrowed_records
              /\ books' = books
              /\ file' = file)]_vars

\* a user below the limit has just been refused a known book without copies left
C6_Witness ==
    /\ out.op = "borrow_book" /\ out.msg = "ERROR_ALL_BORROWED"
    /\ \E i \in DOMAIN books :
          BorrowedOf(borrowed_records, books[i].id) = books[i].copies
    /\ \E u \in Users : LoansOf(borrowed_records, u) = 0

\* the scenario of C7: the fresh store plus one added book with 2 copies,
\* all loans (if any) being u1's loans of that book
ScenarioCatalog ==
    books = initial_books \o <<Book("Dune", "Herbert", 2, "uuid-a")>>

ScenarioLoans ==
    \A i \in DOMAIN borrowed_records :
        /\ borrowed_records[i].user_id = "u1"
        /\ borrowed_records[i].book_id = "uuid-a"

\* C7 as stated: in the scenario every further borrow of the book by u1
\* succeeds as long as u1 is below the 3-loan cap
C7_Original ==
    [][(/\ out'.op = "borrow_book"
        /\ ScenarioCatalog /\ ScenarioLoans
        /\ LoansOf(borrowed_records, "u1") < 3
        /\ borrow_book("uuid-a", "u1", "ok"))
       => out'.msg = "SUCCESS"]_vars

\* C7 as amended: the first borrow leaves available = 1, the second borrow by
\* the same user succeeds (no dedup) and leaves available = 0, the third is
\* refused for lack of copies while u1 holds only 2 loans; in general a
\* borrow by a user who already holds the book succeeds exactly when the
\* user holds fewer than 3 loans and a copy is left
C7_Scenario ==
    [][out'.op = "borrow_book" =>
        /\ (/\ ScenarioCatalog /\ ScenarioLoans
            /\ borrow_book("uuid-a", "u1", "ok"))
           => CASE Len(borrowed_records) = 0 ->
                     /\ out'.msg = "SUCCESS"
                     /\ AvailableOf(books', borrowed_records', "uuid-a") = 1
                [] Len(borrowed_records) = 1 ->
                     /\ out'.msg = "SUCCESS"
                     /\ Len(borrowed_records') = 2
                     /\ AvailableOf(books', borrowed_records', "uuid-a") = 0
                [] OTHER ->
                     /\ out'.msg = "ERROR_ALL_BORROWED"
                     /\ LoansOf(borrowed_records, "u1") = 2
                     /\ borrowed_records' = borrowed_records
        /\ \A b \in BookIdInputs, u \in Users :
             (/\ borrow_book(b, u, "ok")
              /\ \E i \in DOMAIN borrowed_records :
                    /\ borrowed_records[i].user_id = u
                    /\ borrowed_records[i].book_id = b)
             => (out'.msg = "SUCCESS"
                   <=> (/\ LoansOf(borrowed_records, u) < 3
                        /\ AvailableOf(books, borrowed_records, b) > 0))]_vars

\* in the scenario u1 holds both copies and has just been refused a third
C7_Witness ==
    /\ ScenarioCatalog /\ ScenarioLoans
    /\ Len(borrowed_records) = 2
    /\ out.op = "borrow_book" /\ out.msg = "ERROR_ALL_BORROWED"

RECURSIVE CopiesSum(_)
CopiesSum(bks) ==
    IF bks = <<>> THEN 0 ELSE Head(bks).copies + CopiesSum(Tail(bks))

\* "YYYY-MM-DD" a before "YYYY-MM-DD" b, field by field
YmdBefore(a, b) ==
    \/ a[1] < b[1]
    \/ a[1] = b[1] /\ a[2] < b[2]
    \/ a[1] = b[1] /\ a[2] = b[2] /\ a[3] < b[3]

\* C8: the report prints the number of books, the sum of their copies, the
\* number of loan records and the number of loan records due strictly before
\* today; on the three sample books without loans: 3, 9, 0, 0
C8_Report ==
    [][generate_simple_report =>
        /\ report' = << Len(books), CopiesSum(books), Len(borrowed_records),
                        Cardinality({i \in DOMAIN borrowed_records :
                            YmdBefore(borrowed_records[i].due_date,
                                      ord2ymd(today))}) >>
        /\ (books = initial_books /\ borrowed_records = <<>>)
              => report' = <<3, 9, 0, 0>>]_vars

\* a report has counted one overdue loan among several loans
C8_Witness ==
    /\ out.op = "generate_simple_report"
    /\ report[4] = 1
    /\ report[3] >= 2

\* the file is there but cannot be used: unreadable, not JSON, JSON of the
\* wrong shape, or an object whose book entries lack a field
Malformed(f) ==
    \/ f.kind \in {"unreadable", "garbage", "json_list"}
    \/ /\ f.kind = "object"
       /\ \E i \in DOMAIN book_dicts(f.data) :
              ~(BookKeys \subseteq DOMAIN book_dicts(f.data)[i])

\* C9 (fails): load never crashes; without a file the store holds the three
\* sample books and no loans; with a malformed or unreadable file the failure
\* is logged and the store is empty
C9_LoadNeverCrashes ==
    out.op = "load_data" =>
        /\ ~crashed
        /\ file.kind = "absent" =>
              (books = initial_books /\ borrowed_records = <<>>)
        /\ Malformed(file) =>
              (/\ books = <<>> /\ borrowed_records = <<>>
               /\ out.msg = "ERROR_LOAD")

Mutators == {"add_book", "delete_book", "borrow_book", "return_book"}

\* C10 as stated: absent an I/O error the file always equals the catalog and
\* the loan list in memory
C10_Original ==
    (~crashed /\ io_errors = 0) =>
        content(file) = json_document(books, borrowed_records)

\* C10 as amended: absent an I/O error, every add, delete, borrow or return
\* that changes the catalog or the loan list leaves the bytes of the file
\* equal to the new catalog and loan list, and once they are equal they stay
\* equal; a load that cannot read the file is an I/O error too
C10_SavedAfterMutation ==
    [][(io_errors' = io_errors /\ out'.msg # "ERROR_LOAD") =>
        /\ (/\ out'.op \in Mutators
            /\ (books' # books \/ borrowed_records' # borrowed_records))
           => content(file') = json_document(books', borrowed_records')
        /\ content(file) = json_document(books, borrowed_records)
           => content(file') = json_document(books', borrowed_records')]_vars

\* a store started on an unusable file has just written its first change
C10_Witness ==
    /\ out.op = "add_book" /\ out.save = "saved"
    /\ io_errors = 0
    /\ Len(books) = 1
    /\ file = json_document(books, borrowed_records)

\* C11: delete_book returns True exactly when the id is in the catalog and no
\* loan record names it; then that book alone leaves the catalog, the other
\* books keep their order and the loan list is unchanged; on an unknown id it
\* returns False and changes nothing
C11_DeleteExactly ==
    [][out'.op = "delete_book" =>
        \A b \in BookIdInputs :
          delete_book(b, "ok") =>
            /\ out'.ret = "True"
                 <=> (InCatalog(books, b) /\ BorrowedOf(borrowed_records, b) = 0)
            /\ out'.ret = "True" =>
                 /\ \E k \in DOMAIN books :
                       /\ books[k].id = b
                       /\ books' = SubSeq(books, 1, k - 1)
                                     \o SubSeq(books, k + 1, Len(books))
                 /\ borrowed_records' = borrowed_records
            /\ ~InCatalog(books, b) =>
                 /\ out'.ret = "False"
                 /\ books' = books
                 /\ borrowed_records' = borrowed_records
                 /\ file' = file]_vars

\* a book has just been deleted while other books stay, one of them on loan
C11_Witness ==
    /\ out.op = "delete_book" /\ out.ret = "True"
    /\ Len(books) >= 2
    /\ Len(borrowed_records) >= 1

FirstMatch(recs, b, u) ==
    CHOOSE k \in DOMAIN recs :
        /\ recs[k].user_id = u /\ recs[k].book_id = b
        /\ \A j \in 1 .. (k - 1) : ~(recs[j].user_id = u /\ recs[j].book_id = b)

\* C12: return_book removes exactly one loan record, the first in list order
\* with that user and book, and keeps every other record in its order; without
\* a matching record it reports not-found and changes neither list nor catalog
C12_ReturnFirstMatch ==
    [][out'.op = "return_book" =>
        \A b \in BookIdInputs, u \in Users :
          return_book(b, u, "ok") =>
            IF \E i \in DOMAIN borrowed_records :
                  /\ borrowed_records[i].user_id = u
                  /\ borrowed_records[i].book_id = b
            THEN /\ out'.msg = "SUCCESS"
                 /\ borrowed_records' =
                      SubSeq(borrowed_records, 1,
                             FirstMatch(borrowed_records, b, u) - 1)
                      \o SubSeq(borrowed_records,
                                FirstMatch(borrowed_records, b, u) + 1,
                                Len(borrowed_records))
                 /\ books' = books
            ELSE /\ out'.msg = "ERROR_NO_RECORD"
                 /\ borrowed_records' = borrowed_records
                 /\ books' = books
                 /\ file' = file]_vars

\* a return has just succeeded and the user still holds two loans of one
\* book with different due dates
C12_Witness ==
    /\ out.op = "return_book" /\ out.msg = "SUCCESS"
    /\ \E i \in DOMAIN borrowed_records, j \in DOMAIN borrowed_records :
          /\ i < j
          /\ borrowed_records[i].user_id = borrowed_records[j].user_id
          /\ borrowed_records[i].book_id = borrowed_records[j].book_id
          /\ borrowed_records[i].due_date # borrowed_records[j].due_date

\* C18: when a write of the data file hits an I/O error, the error is
\* reported, the program goes on, the catalog and the loan list keep the
\* result of the operation, and the write is not tried again (the file is
\* what it was, or what the broken write left)
C18_SaveErrorKept ==
    [][io_errors' # io_errors =>
        /\ io_errors' = io_errors + 1
        /\ out'.save = "save_error"
        /\ ~crashed'
        /\ content(file') \in {content(file), GarbageFile}
        /\ file'.kind = "unreadable" <=> file.kind = "unreadable"
        /\ out'.op = "add_book" =>
              (Len(books') = Len(books) + 1 /\ borrowed_records' = borrowed_records)
        /\ out'.op = "delete_book" =>
              (Len(books') = Len(books) - 1 /\ borrowed_records' = borrowed_records)
        /\ out'.op = "borrow_book" =>
              (Len(borrowed_records') = Len(borrowed_records) + 1 /\ books' = books)
        /\ out'.op = "return_book" =>
              (Len(borrowed_records') = Len(borrowed_records) - 1 /\ books' = books)
        /\ out'.op = "save_data" =>
              (books' = books /\ borrowed_records' = borrowed_records)]_vars

\* a borrow has just been kept in memory while its write failed
C18_Witness ==
    /\ out.op = "borrow_book" /\ out.msg = "SUCCESS" /\ out.save = "save_error"
    /\ io_errors = 1
    /\ file # json_document(books, borrowed_records)

\* the calendar from 2024-02-22 on, day by day (2024 is a leap year)
Calendar ==
    << <<2024, 2, 22>>, <<2024, 2, 23>>, <<2024, 2, 24>>, <<2024, 2, 25>>,
       <<2024, 2, 26>>, <<2024, 2, 27>>, <<2024, 2, 28>>, <<2024, 2, 29>>,
       <<2024, 3, 1>>, <<2024, 3, 2>>, <<2024, 3, 3>>, <<2024, 3, 4>>,
       <<2024, 3, 5>>, <<2024, 3, 6>>, <<2024, 3, 7>>, <<2024, 3, 8>>,
       <<2024, 3, 9>>, <<2024, 3, 10>>, <<2024, 3, 11>>, <<2024, 3, 12>>,
       <<2024, 3, 13>>, <<2024, 3, 14>> >>

DateOf(day) == Calendar[day - 738937]

\* the day a loan was made, from its due date: due = day + 7
BorrowDay(r) ==
    CHOOSE d \in (738938 - 7) .. (738938 + 14) :
        d + 7 >= 738938 /\ DateOf(d + 7) = r.due_date

\* C20: a successful borrow on day d appends a record due on d + 7; a report
\* counts a loan overdue exactly from day d + 8 on, so not on any day up to
\* and including d + 7
C20_DueAndOverdue ==
    [][/\ Len(borrowed_records') = Len(borrowed_records) + 1 =>
             /\ out'.op = "borrow_book" /\ out'.msg = "SUCCESS"
             /\ borrowed_records'[Len(borrowed_records')].due_date
                   = DateOf(today + 7)
       /\ generate_simple_report =>
             report'[4] = Cardinality({i \in DOMAIN borrowed_records :
                              today >= BorrowDay(borrowed_records[i]) + 8})]_vars

\* a report made on the due day of the only loan counts nothing overdue
C20_Witness ==
    /\ out.op = "generate_simple_report"
    /\ Len(borrowed_records) = 1
    /\ borrowed_records[1].due_date = DateOf(today)
    /\ report = <<3, 9, 1, 0>>

\* C13: add_book with a zero or negative copy count is reported and refused:
\* no Book is created, catalog and file stay as they were, so no book of the
\* catalog ever has copies <= 0
C13_CopiesValidated ==
    /\ [][\A t \in Titles, a \in Authors, c \in CopiesInput :
            (c <= 0 /\ LibraryManager_add_book(t, a, c, "ok")) =>
               /\ out'.msg = "ERROR_COPIES"
               /\ books' = books
               /\ file' = file]_vars
    /\ [](\A i \in DOMAIN books : books[i].copies > 0)

\* C13 at the menu, the one place that checks the count: at the copies prompt
\* of the add-book menu a count <= 0 is reported and
\* refused: no Book is created, catalog, loans and file stay as they were, and
\* the prompt comes again with the title and author typed before (the
\* operation is not aborted); a positive count adds one book with that count;
\* so every book of the catalog has copies > 0
C13_CopiesPrompt ==
    [][(pc = "add_copies") =>
        \A c \in CopiesInput :
          copies_prompt(c) =>
            /\ IF c <= 0
               THEN /\ out'.msg = "ERROR_COPIES"
                    /\ books' = books
                    /\ borrowed_records' = borrowed_records
                    /\ file' = file
                    /\ pc' = "add_copies"
                    /\ locals' = locals
               ELSE /\ out'.msg = "SUCCESS"
                    /\ Len(books') = Len(books) + 1
                    /\ SubSeq(books', 1, Len(books)) = books
                    /\ books'[Len(books')].copies = c
                    /\ books'[Len(books')].title = locals[1]
                    /\ books'[Len(books')].author = locals[2]
                    /\ pc' = "book_menu"
            /\ \A i \in DOMAIN books' : books'[i].copies > 0]_vars

\* a count has just been refused and the copies prompt is up again
C13_Witness ==
    /\ out.op = "add_book" /\ out.msg = "ERROR_COPIES"
    /\ pc = "add_copies"
    /\ locals = <<"Dune", "Herbert">>
    /\ Len(books) = 3

ReadOnlyOps ==
    {"search_books", "generate_simple_report", "view_available_books",
     "display_book_database", "view_my_books", "view_customers_books"}

\* C14: search, report, the listing of available books, of all books, of a
\* user's loans and of all customers with their loans leave the catalog, the
\* loan list, the user list, the current user and the file unchanged
C14_ReadOnly ==
    [][out'.op \in ReadOnlyOps =>
          /\ books' = books
          /\ borrowed_records' = borrowed_records
          /\ USERS' = USERS
          /\ CURRENT_USER' = CURRENT_USER
          /\ file' = file]_vars

\* a customer has just listed the available books while a book of the
\* catalog has no copy left
C14_Witness ==
    /\ out.op = "view_available_books" /\ out.msg = "AVAILABLE"
    /\ CURRENT_USER # None /\ CURRENT_USER.role = "customer"
    /\ \E i \in DOMAIN books :
          AvailableOf(books, borrowed_records, books[i].id) = 0

UsernamesUnique(users) ==
    \A i \in DOMAIN users, j \in DOMAIN users :
        i # j => users[i].username # users[j].username

\* C15: no two users share a username, in every state; a registration
\* attempt, staff or customer, with a username already in the list adds no
\* user and leaves the current user as it was
C15_UsernamesUnique ==
    /\ []UsernamesUnique(USERS)
    /\ [][(pc \in {"staff_register", "customer_register"}) =>
            \A u \in Usernames, p \in Passwords :
              (/\ register_staff(u, p) \/ customer_register(u, p)
               /\ \E i \in DOMAIN USERS : USERS[i].username = u)
              => (/\ out'.msg = "ERROR_USERNAME_EXISTS"
                  /\ USERS' = USERS
                  /\ CURRENT_USER' = CURRENT_USER)]_vars

\* a registration has just been refused for a taken name, after another one
\* added a user
C15_Witness ==
    /\ out.msg = "ERROR_USERNAME_EXISTS"
    /\ Len(USERS) = 3
    /\ CURRENT_USER = None

\* C16: a login succeeds, and sets the current user, exactly when a user of
\* that name is in the list with that password and with the role of the
\* login path taken; otherwise it fails and no user is logged in
C16_LoginChecks ==
    [][(pc \in {"staff_login", "customer_login"}) =>
        \A u \in Usernames, p \in Passwords :
          (authenticate_staff(u, p) \/ customer_login(u, p)) =>
            IF \E i \in DOMAIN USERS :
                  /\ USERS[i].username = u
                  /\ USERS[i].password = p
                  /\ USERS[i].role = (IF pc = "staff_login" THEN "staff"
                                      ELSE "customer")
            THEN /\ out'.ret = "True"
                 /\ CURRENT_USER'.username = u
                 /\ \E i \in DOMAIN USERS : CURRENT_USER' = USERS[i]
            ELSE /\ out'.ret = "False"
                 /\ CURRENT_USER' = None
                 /\ CURRENT_USER = None]_vars

\* a customer registered in this run has logged in again later
C16_Witness ==
    /\ out.op = "customer_login" /\ out.ret = "True"
    /\ CURRENT_USER.username = "bob"
    /\ pc = "customer_menu"

\* the menu above each prompt
MenuAbove(p) ==
    CASE p \in {"staff_access", "customer_access"} -> "role_menu"
      [] p \in {"staff_login", "staff_register"} -> "staff_access"
      [] p \in {"customer_login", "customer_register"} -> "customer_access"
      [] p \in {"staff_menu", "customer_menu"} -> "role_menu"
      [] p = "book_menu" -> "staff_menu"
      [] p = "add_copies" -> "book_menu"
      [] p \in IdPrompts -> caller(p)
      [] OTHER -> "exited"

\* C17: Ctrl-C at any prompt, the login and registration prompts included,
\* does not crash the program: it leaves the current menu for the one above
C17_InterruptHandled ==
    [][KeyboardInterrupt =>
          /\ ~crashed'
          /\ pc' = MenuAbove(pc)]_vars

\* C19: a logout unsets the current user and shows the role menu; while no
\* user is logged in the program is at none of the staff or customer
\* prompts, no step changes the catalog or the loans, and a user becomes
\* current only by a login or a registration that succeeds
C19_LogoutResets ==
    /\ [](CURRENT_USER = None =>
            pc \notin {"staff_menu", "book_menu", "add_copies", "customer_menu"}
                      \cup IdPrompts)
    /\ [][/\ out'.msg = "INFO_LOGGED_OUT" =>
               (CURRENT_USER' = None /\ pc' = "role_menu")
          /\ CURRENT_USER = None =>
               /\ books' = books
               /\ borrowed_records' = borrowed_records
               /\ CURRENT_USER' # None =>
                     /\ out'.op \in {"authenticate_staff", "customer_login",
                                     "register_staff", "customer_register"}
                     /\ out'.ret = "True"]_vars

\* a customer who holds a loan has just logged out
C19_Witness ==
    /\ out.op = "customer_main_menu" /\ out.msg = "INFO_LOGGED_OUT"
    /\ CURRENT_USER = None
    /\ pc = "role_menu"
    /\ Len(borrowed_records) >= 1

\* C21: every loan record names a book of the catalog, in every state reached
\* by adding, deleting, borrowing and returning (and saving and reloading)
C21_LoansNameBooks ==
    \A i \in DOMAIN borrowed_records :
        \E j \in DOMAIN books : books[j].id = borrowed_records[i].book_id

\* a book has just been deleted while two books of the catalog are on loan
C21_Witness ==
    /\ out.op = "delete_book" /\ out.ret = "True"
    /\ Cardinality({borrowed_records[i].book_id : i \in DOMAIN borrowed_records}) >= 2

\* C22: every loan record names a user of the user list, in every state, also
\* after the program has ended and been started again on the saved file
C22_LoansNameUsers ==
    \A i \in DOMAIN borrowed_records :
        \E j \in DOMAIN USERS : USERS[j].id = borrowed_records[i].user_id

\* C23: in the menus, a book is added or deleted only while the current user
\* is staff, and a loan is made or returned only while the current user is a
\* customer, the record appended or removed carrying that user's id; nothing
\* else changes the catalog or the loan list
C23_SessionGates ==
    [][/\ out'.op \in {"add_book", "delete_book"} =>
             (CURRENT_USER.role = "staff" /\ CURRENT_USER' = CURRENT_USER)
       /\ out'.op \in {"borrow_book", "return_book"} =>
             /\ CURRENT_USER.role = "customer"
             /\ CURRENT_USER' = CURRENT_USER
             /\ Len(borrowed_records') > Len(borrowed_records) =>
                   /\ borrowed_records' = Append(borrowed_records,
                         borrowed_records'[Len(borrowed_records')])
                   /\ borrowed_records'[Len(borrowed_records')].user_id
                         = CURRENT_USER.id
             /\ Len(borrowed_records') < Len(borrowed_records) =>
                   \E k \in DOMAIN borrowed_records :
                       /\ borrowed_records[k].user_id = CURRENT_USER.id
                       /\ borrowed_records' =
                            SubSeq(borrowed_records, 1, k - 1)
                            \o SubSeq(borrowed_records, k + 1,
                                      Len(borrowed_records))
       /\ books' # books => out'.op \in {"add_book", "delete_book"}
       /\ borrowed_records' # borrowed_records =>
             out'.op \in {"borrow_book", "return_book"}]_vars

\* a customer registered in this run has just returned a book while the
\* seeded customer holds a loan
C23_Witness ==
    /\ out.op = "return_book" /\ out.msg = "SUCCESS"
    /\ CURRENT_USER.username = "bob"
    /\ \E i \in DOMAIN borrowed_records :
          borrowed_records[i].user_id = USER_UUIDS[1][2]

\* the program has ended
Ended == {"exited", "traceback"}

\* C24: the program ends only by an exit that says goodbye, and save_data has
\* run, so that the file holds the catalog and the loans, when it ends
C24_EndsOnlyByExit ==
    /\ [](pc \in Ended => (~crashed /\ out.msg = "GOODBYE"))
    /\ [][(pc' \in Ended /\ pc \notin Ended) =>
            /\ ~crashed'
            /\ out'.msg = "GOODBYE"
            /\ out'.save = "saved"
            /\ content(file') = json_document(books, borrowed_records)]_vars

FirstRoll(students, roll) ==
    CHOOSE k \in DOMAIN students :
        /\ students[k].Roll = roll
        /\ \A j \in 1 .. (k - 1) : students[j].Roll # roll

\* C25: delete_student removes exactly one record, the first in list order
\* with that Roll, and keeps the others in their order, also when several
\* records share the Roll; when no record has the Roll the list is unchanged
\* and the not-exists error is reported
C25_DeleteFirstRoll ==
    [][out'.op = "delete_student" =>
        \A r \in RollInputs :
          delete_student(r) =>
            IF \E i \in DOMAIN STD_LIST : STD_LIST[i].Roll = r
            THEN /\ out'.msg = "SUCCESS"
                 /\ STD_LIST' = SubSeq(STD_LIST, 1, FirstRoll(STD_LIST, r) - 1)
                                  \o SubSeq(STD_LIST, FirstRoll(STD_LIST, r) + 1,
                                            Len(STD_LIST))
            ELSE /\ out'.msg = "ERROR_NOT_EXISTS"
                 /\ STD_LIST' = STD_LIST]_vars

\* a student has just been deleted and two students who differ still share
\* a roll number
C25_Witness ==
    /\ out.op = "delete_student" /\ out.msg = "SUCCESS"
    /\ \E i \in DOMAIN STD_LIST, j \in DOMAIN STD_LIST :
          /\ i < j
          /\ STD_LIST[i].Roll = STD_LIST[j].Roll
          /\ STD_LIST[i] # STD_LIST[j]

\* C26: the game goes on while no guess typed equals the number, and ends at
\* the first guess that does; a guess below the number gets the hint
\* "bigger", a guess above it "lesser"; the number of turns printed at the
\* end is the number of guesses typed, the right one included
C26_GameLoop ==
    /\ [](pc = "guess_prompt" =>
            \A i \in DOMAIN guesses : guesses[i] # num)
    /\ [](pc = "done" =>
            /\ guesses # <<>>
            /\ guesses[Len(guesses)] = num
            /\ \A i \in 1 .. (Len(guesses) - 1) : guesses[i] # num
            /\ report = <<Len(guesses)>>)
    /\ [][guesses' # guesses =>
            /\ Len(guesses') = Len(guesses) + 1
            /\ SubSeq(guesses', 1, Len(guesses)) = guesses
            /\ guesses'[Len(guesses')] < num =>
                  (out'.msg = "BIGGER" /\ pc' = "guess_prompt")
            /\ guesses'[Len(guesses')] > num =>
                  (out'.msg = "LESSER" /\ pc' = "guess_prompt")
            /\ guesses'[Len(guesses')] = num =>
                  (out'.msg = "RIGHT" /\ pc' = "done")]_vars

\* a game has ended at the fourth guess, after a guess below the number and
\* a guess above it
C26_Witness ==
    /\ pc = "done"
    /\ Len(guesses) = 4
    /\ report = <<4>>
    /\ \E i \in DOMAIN guesses : guesses[i] < num
    /\ \E i \in DOMAIN guesses : guesses[i] > num

====
